---- MODULE Spec2Model ----
(***************************************************************************)
(* Model of agent-backend/src/tools/global_tools.py: the human-input tool  *)
(* CustomHumanInput (extract_message and _run) and its two sibling tools,  *)
(* get_papers_from_arxiv._run and openapi_request.openapi_request.         *)
(***************************************************************************)
EXTENDS Integers, Sequences, FiniteSets, TLC

(***************************************************************************)
(* State.                                                                  *)
(*   exText, exOut, exPc   a call of extract_message: its argument, its    *)
(*                         result, and whether it has run                  *)
(*   exOrigin              the entries exText was written from, if known   *)
(*   session_id, socket_client   the tool's two fields                     *)
(*   ctor                  the arguments the tool was constructed with     *)
(*   lastSent              the last message sent on the connection         *)
(*   pending               the published requests the human has yet to     *)
(*                         reply to, by chunk id                           *)
(*   inbox                 the connection's buffer of replies not yet      *)
(*                         received: for each, the chunk id of the request *)
(*                         it was written for.  What a reply says is drawn *)
(*                         when it is received: nothing reads it before    *)
(*   nextChunk             stands for uuid4(): the next fresh chunk id     *)
(*   started               the number of _run calls made so far            *)
(*   pc, arg, chunk, ret, exc, got   a caller's current invocation: where  *)
(*                         it is, its argument, the chunk id it published, *)
(*                         what it returned, the exception that left it,   *)
(*                         the reply it received (with the request it was  *)
(*                         written for, and the callers blocked in receive *)
(*                         beside this one when it arrived)                *)
(*   path, calls, timedOut its history: the states passed, the calls made  *)
(*                         into the connection, where a timeout was raised *)
(*   sibTool, sibIn, sibPc, sibOut   a call of a sibling tool: which one,  *)
(*                         its arguments, where it is, what it returned    *)
(*   sibCaught, sibPrinted, sibRequests   the exception its handler took,  *)
(*                         what it printed, the external requests it made  *)
(***************************************************************************)
VARIABLES exText, exOrigin, exPc, exOut,
          session_id, socket_client, ctor, lastSent, pending, inbox, nextChunk, started,
          pc, arg, chunk, ret, exc, got, path, calls, timedOut,
          sibTool, sibIn, sibPc, sibOut, sibCaught, sibPrinted, sibRequests

exVars == <<exText, exOrigin, exPc, exOut>>

connVars == <<session_id, socket_client, ctor, lastSent, pending, inbox, nextChunk, started>>

runVars == <<pc, arg, chunk, ret, exc, got, path, calls, timedOut>>

toolVars == <<connVars, runVars>>

sibVars == <<sibTool, sibIn, sibPc, sibOut, sibCaught, sibPrinted, sibRequests>>

vars == <<exVars, toolVars, sibVars>>

(***************************************************************************)
(* Python values.  A value is a record [t, v]: t is the Python type and v  *)
(* its content, always a sequence: the characters of a str, the lexeme of  *)
(* a number, the (key, value) pairs of a dict in insertion order, and the  *)
(* empty sequence for None.                                                *)
(***************************************************************************)
PyNone == [t |-> "None", v |-> <<>>]

PyStr(s) == [t |-> "str", v |-> s]

PyNum(lex) == [t |-> "num", v |-> lex]

PyDict(pairs) == [t |-> "dict", v |-> pairs]

\* The characters input strings are made of: braces, the double quote, the
\* colon, the comma, the space, the digit 1 and the letters
\* a b e h i j l n o q s t u x y.  None of them is a backslash or a control
\* character, and the letters "r", "f", "N" and "I" are absent, so the only
\* JSON literal these characters can spell is null.
WS == " "

QUOTE == "\""

Digits == {"1"}

(***************************************************************************)
(* json.loads on a character sequence: the standard decoder's scanner.     *)
(* Every operator returns [ok, val, pos]: ok is FALSE when the decoder     *)
(* raises JSONDecodeError, pos is the index after what was consumed.       *)
(***************************************************************************)
DecodeError == [ok |-> FALSE, val |-> PyNone, pos |-> 0]

Decoded(val, pos) == [ok |-> TRUE, val |-> val, pos |-> pos]

CharAt(s, i) == IF i >= 1 /\ i <= Len(s) THEN s[i] ELSE ""

RECURSIVE SkipWs(_, _)
SkipWs(s, i) == IF CharAt(s, i) = WS THEN SkipWs(s, i + 1) ELSE i

\* scanstring: i is the index after the opening quote.
RECURSIVE ScanString(_, _, _)
ScanString(s, i, acc) ==
    IF i > Len(s) THEN DecodeError
    ELSE IF s[i] = QUOTE THEN Decoded(PyStr(acc), i + 1)
    ELSE ScanString(s, i + 1, Append(acc, s[i]))

RECURSIVE ScanDigits(_, _)
ScanDigits(s, i) == IF CharAt(s, i) \in Digits THEN ScanDigits(s, i + 1) ELSE i

\* NUMBER_RE: an integer part and an optional exponent (no "-", "." or "0"
\* among the characters).
ScanNumber(s, i) ==
    LET intEnd == ScanDigits(s, i)
        expEnd == IF CharAt(s, intEnd) \in {"e"} /\ CharAt(s, intEnd + 1) \in Digits
                  THEN ScanDigits(s, intEnd + 1)
                  ELSE intEnd
    IN  Decoded(PyNum(SubSeq(s, i, expEnd - 1)), expEnd)

\* dict(pairs): a repeated key keeps its first position and takes the last value.
RECURSIVE DictSet(_, _, _)
DictSet(pairs, k, val) ==
    IF pairs = <<>> THEN <<<<k, val>>>>
    ELSE IF Head(pairs)[1] = k THEN <<<<k, val>>>> \o Tail(pairs)
    ELSE <<Head(pairs)>> \o DictSet(Tail(pairs), k, val)

RECURSIVE ScanOnce(_, _)
RECURSIVE ScanMembers(_, _, _)

\* JSONObject's loop: i is the index of the opening quote of the next key.
ScanMembers(s, i, pairs) ==
    LET key == ScanString(s, i + 1, <<>>)
    IN  IF ~key.ok THEN DecodeError
        ELSE LET colon == SkipWs(s, key.pos)
             IN  IF CharAt(s, colon) # ":" THEN DecodeError
                 ELSE LET val == ScanOnce(s, SkipWs(s, colon + 1))
                      IN  IF ~val.ok THEN DecodeError
                          ELSE LET sep  == SkipWs(s, val.pos)
                                   more == DictSet(pairs, key.val.v, val.val)
                               IN  IF CharAt(s, sep) = "}"
                                   THEN Decoded(PyDict(more), sep + 1)
                                   ELSE IF CharAt(s, sep) # "," THEN DecodeError
                                   ELSE LET nxt == SkipWs(s, sep + 1)
                                        IN  IF CharAt(s, nxt) # QUOTE THEN DecodeError
                                            ELSE ScanMembers(s, nxt, more)

\* JSONObject: i is the index after the opening brace.
ScanObject(s, i) ==
    LET first == SkipWs(s, i)
    IN  IF CharAt(s, first) = "}" THEN Decoded(PyDict(<<>>), first + 1)
        ELSE IF CharAt(s, first) # QUOTE THEN DecodeError
        ELSE ScanMembers(s, first, <<>>)

\* scan_once: one JSON value starting at index i.
ScanOnce(s, i) ==
    LET c == CharAt(s, i)
    IN  IF c = QUOTE THEN ScanString(s, i + 1, <<>>)
        ELSE IF c = "{" THEN ScanObject(s, i + 1)
        ELSE IF c = "n" /\ i + 3 <= Len(s) /\ SubSeq(s, i, i + 3) = <<"n", "u", "l", "l">>
             THEN Decoded(PyNone, i + 4)
        ELSE IF c \in Digits THEN ScanNumber(s, i)
        ELSE DecodeError

\* json.loads: one value, whitespace around it, nothing after it.
json_loads(s) ==
    LET r == ScanOnce(s, SkipWs(s, 1))
    IN  IF ~r.ok THEN DecodeError
        ELSE IF SkipWs(s, r.pos) # Len(s) + 1 THEN DecodeError
        ELSE r

(***************************************************************************)
(* CustomHumanInput.extract_message                                        *)
(***************************************************************************)
\* text.startswith('{')
StartsWithBrace(text) == text.t = "str" /\ CharAt(text.v, 1) = "{"

\* next((value for value in text_json.values() if value is not None), None)
RECURSIVE FirstNonNone(_)
FirstNonNone(pairs) ==
    IF pairs = <<>> THEN PyNone
    ELSE IF Head(pairs)[2].t # "None" THEN Head(pairs)[2]
    ELSE FirstNonNone(Tail(pairs))

\* A length test that is off by one: a single-entry mapping is left wrapped.
ExtractTryAtLeastOne(text) ==
    IF StartsWithBrace(text)
    THEN LET text_json == json_loads(text.v)
         IN  IF ~text_json.ok THEN [exc |-> TRUE, val |-> PyNone]
             ELSE IF Len(text_json.val.v) >= 1 THEN [exc |-> FALSE, val |-> text]
             ELSE [exc |-> FALSE, val |-> FirstNonNone(text_json.val.v)]
    ELSE [exc |-> FALSE, val |-> text]

\* The body of the try block: [exc, val]; exc is TRUE when it raises.
ExtractTry(text) ==
    IF StartsWithBrace(text)
    THEN LET text_json == json_loads(text.v)
         IN  IF ~text_json.ok THEN [exc |-> TRUE, val |-> PyNone]
             ELSE IF Len(text_json.val.v) > 1 THEN [exc |-> FALSE, val |-> text]
             ELSE [exc |-> FALSE, val |-> FirstNonNone(text_json.val.v)]
    ELSE [exc |-> FALSE, val |-> text]

\* What a handler that lets the exception through would give.
ExtractNoCatch(text) ==
    LET r == ExtractTry(text)
    IN  [raised |-> r.exc, logged |-> FALSE, val |-> r.val]

\* try ... except Exception as e: logging.exception(e); return text
extract_message(text) ==
    LET r == ExtractTry(text)
    IN  IF r.exc THEN [raised |-> FALSE, logged |-> TRUE, val |-> text]
        ELSE [raised |-> FALSE, logged |-> FALSE, val |-> r.val]

(***************************************************************************)
(* The inputs extract_message is applied to.                               *)
(***************************************************************************)
MaxLen == 3

MaxEntries == 2

SeqsUpTo(S, n) == UNION {[1..k -> S] : k \in 0..n}

\* Every string of at most MaxLen of these characters.
ShortChars == {"{", "}", QUOTE, ":", ",", WS, "a", "1"}

ShortTexts == SeqsUpTo(ShortChars, MaxLen)

\* The texts of the documented cases, and malformed or unusual neighbours.
CuratedTexts ==
    { <<"{", QUOTE, "q", "u", "e", "s", "t", "i", "o", "n", QUOTE, ":", WS, QUOTE, "h", "i", QUOTE, "}">>,
      <<"{", QUOTE, "a", QUOTE, ":", WS, QUOTE, "x", QUOTE, ",", WS, QUOTE, "b", QUOTE, ":", WS, QUOTE, "y", QUOTE, "}">>,
      <<"{", QUOTE, "a", QUOTE, ":", WS, "n", "u", "l", "l", "}">>,
      <<"{", "n", "o", "t", WS, "j", "s", "o", "n">>,
      <<"h", "e", "l", "l", "o">>,
      <<"{", QUOTE, "a", QUOTE, ":", WS, "{", QUOTE, "b", QUOTE, ":", WS, QUOTE, "x", QUOTE, "}", "}">>,
      <<"{", QUOTE, "a", QUOTE, ":", WS, QUOTE, "x", QUOTE, "}", WS>>,
      <<"{", QUOTE, "a", QUOTE, ":", WS, QUOTE, "x", QUOTE, "}", "x">>,
      <<"{", QUOTE, "a", QUOTE, ":", WS, QUOTE, "x", QUOTE, ",", "}">>,
      <<WS, "{", QUOTE, "a", QUOTE, ":", WS, QUOTE, "x", QUOTE, "}">>,
      <<"{", QUOTE, "a", QUOTE, ":", WS, "1", "e", "1", "}">>,
      <<"{", QUOTE, "a", QUOTE, ":", WS, "1", "e", "}">>,
      <<"{", QUOTE, "a", QUOTE, ":", WS, "n", "u", "l", "}">>,
      <<"{", QUOTE, "a", QUOTE, WS, ":", "n", "u", "l", "l", WS, ",", QUOTE, "b", QUOTE, ":", "n", "u", "l", "l", "}">>,
      <<"{", "a", ":", WS, "1", "}">> }

\* JSON texts written from a list of (key, value) entries, compact or spaced.
EntryKeys == {<<"a">>, <<"b">>}

EntryVals == {PyNone, PyStr(<<"x">>), PyStr(<<>>), PyNum(<<"1">>), PyDict(<<>>)}

EntrySeqs == SeqsUpTo(EntryKeys \X EntryVals, MaxEntries)

Styles == {<<>>, <<WS>>}

ValText(val) ==
    CASE val.t = "None" -> <<"n", "u", "l", "l">>
      [] val.t = "str"  -> <<QUOTE>> \o val.v \o <<QUOTE>>
      [] val.t = "num"  -> val.v
      [] OTHER          -> <<"{", "}">>

RECURSIVE MembersText(_, _)
MembersText(entries, sp) ==
    IF entries = <<>> THEN <<>>
    ELSE <<QUOTE>> \o Head(entries)[1] \o <<QUOTE, ":">> \o sp \o ValText(Head(entries)[2])
         \o (IF Tail(entries) = <<>> THEN <<>> ELSE <<",">> \o sp \o MembersText(Tail(entries), sp))

Render(entries, sp) == <<"{">> \o MembersText(entries, sp) \o <<"}">>

\* What dict() makes of the entries.
RECURSIVE AsDict(_, _)
AsDict(entries, acc) ==
    IF entries = <<>> THEN acc
    ELSE AsDict(Tail(entries), DictSet(acc, Head(entries)[1], Head(entries)[2]))

\* Arguments that are not strings.
NonStrings == {PyNone, PyNum(<<"1">>), PyDict(<<>>)}

NoOrigin == [known |-> FALSE, entries |-> <<>>]

NoResult == [raised |-> FALSE, logged |-> FALSE, val |-> PyNone]

ExtractInit ==
    /\ exPc = "call"
    /\ exOut = NoResult
    /\ \/ \E s \in CuratedTexts \cup ShortTexts :
             exText = PyStr(s) /\ exOrigin = NoOrigin
       \/ \E e \in EntrySeqs, sp \in Styles :
             exText = PyStr(Render(e, sp)) /\ exOrigin = [known |-> TRUE, entries |-> e]
       \/ \E v \in NonStrings :
             exText = v /\ exOrigin = NoOrigin

\* No call of extract_message is under way.
ExtractIdle ==
    /\ exPc = "off"
    /\ exOut = NoResult
    /\ exText = PyNone
    /\ exOrigin = NoOrigin

\* One call of CustomHumanInput.extract_message(text).
ExtractCall ==
    /\ exPc = "call"
    /\ exOut' = extract_message(exText)
    /\ exPc' = "done"
    /\ UNCHANGED <<exText, exOrigin>>
    /\ UNCHANGED <<toolVars, sibVars>>

(***************************************************************************)
(* CustomHumanInput._run.  One tool instance on one connection; each       *)
(* caller is a thread of the agent loop that calls _run, takes its result  *)
(* and may call again.  Two callers are the smallest setting in which      *)
(* invocations can overlap on the connection.                              *)
(***************************************************************************)
MaxCalls == 2

MaxClock == 1

Callers == {"A", "B"}

Sessions == {"s1", "s2"}

Clients == {"c1"}

\* The arguments _run is called with.
ToolTexts ==
    { PyStr(<<"h", "e", "l", "l", "o">>),
      PyStr(<<"{", QUOTE, "q", "u", "e", "s", "t", "i", "o", "n", QUOTE, ":", WS, QUOTE, "h", "i", QUOTE, "}">>) }

\* What the connection's receive() returns: the event, then its arguments.
ReplyKinds == {"terminate", "ok"}

Payloads == {"yes", "exit"}

Replies == {<<"ok">>} \cup {<<k, pl>> : k \in ReplyKinds, pl \in Payloads}

\* How a call into the connection can end.
SendOutcomes == {"ok", "TimeoutError", "DisconnectedError"}

EmitOutcomes == {"ok", "DisconnectedError"}

TerminateSentinel == " TERMINATE ALL TASKS IMMEDIATELY "

ExitSentinel == "exit"

\* Where an invocation can end: by a return, or by an exception leaving _run.
ReturnStates == {"RESULT", "TERMINATE", "TIMEOUT_EXIT"}

EndStates == ReturnStates \cup {"RAISED"}

NoReturn == [set |-> FALSE, val |-> ""]

Returned(val) == [set |-> TRUE, val |-> val]

NoReply == [set |-> FALSE, data |-> <<>>, answerTo |-> 0, beside |-> {}]

NothingSent ==
    [ kind |-> "none", client |-> "", event |-> "", mode |-> "", data |-> <<>>, arg |-> PyNone ]

NoCalls == [send |-> 0, published |-> 0, receive |-> 0, emit |-> 0, notified |-> 0]

\* __init__(socket_client, session_id): the two fields, and what they were set from.
ToolFields(client, session) ==
    /\ session_id = session
    /\ socket_client = client
    /\ ctor = [session_id |-> session, socket_client |-> client]

ToolRest ==
    /\ lastSent = NothingSent
    /\ pending = {}
    /\ inbox = <<>>
    /\ nextChunk = 1
    /\ started = 0
    /\ pc = [p \in Callers |-> "none"]
    /\ arg = [p \in Callers |-> PyNone]
    /\ chunk = [p \in Callers |-> 0]
    /\ ret = [p \in Callers |-> NoReturn]
    /\ exc = [p \in Callers |-> "none"]
    /\ got = [p \in Callers |-> NoReply]
    /\ path = [p \in Callers |-> <<>>]
    /\ calls = [p \in Callers |-> NoCalls]
    /\ timedOut = [p \in Callers |-> "no"]

\* An envelope that carries the argument as it came, not what extract_message
\* makes of it.
EnvelopeRawText(text, chunkId, now) ==
    [ room       |-> session_id,
      authorName |-> "system",
      message    |-> [ chunkId   |-> chunkId,
                       text      |-> text,
                       first     |-> TRUE,
                       tokens    |-> 1,
                       timestamp |-> now * 1000,
                       single    |-> TRUE ],
      isFeedback |-> TRUE ]

\* SocketMessage(room=..., authorName="system", message=Message(...), isFeedback=True)
Envelope(text, chunkId, now) ==
    [ room       |-> session_id,
      authorName |-> "system",
      message    |-> [ chunkId   |-> chunkId,
                       text      |-> extract_message(text).val,
                       first     |-> TRUE,
                       tokens    |-> 1,
                       timestamp |-> now * 1000,
                       single    |-> TRUE ],
      isFeedback |-> TRUE ]

\* send(client, event, message, mode): the message goes out on the connection.
\* arg is the _run argument the message was built from.
send(client, event, message, mode, text) ==
    [ kind |-> "request", client |-> client, event |-> event,
      mode |-> mode, data |-> message, arg |-> text ]

\* send(self.socket_client, SocketEvents.MESSAGE, SocketMessage(...), "both")
PublishRequest(text, chunkId, now) ==
    send(socket_client, "message", Envelope(text, chunkId, now), "both", text)

\* self.socket_client.emit("message", {"room": ..., "type": "error", "message": "TimeOutError"})
ErrorNotice ==
    [ kind |-> "error", client |-> socket_client, event |-> "message", mode |-> "emit",
      data |-> [room |-> session_id, type |-> "error", message |-> "TimeOutError"],
      arg |-> PyNone ]

\* A handler written except Exception: it takes every exception.
CatchesAll(e) == e # "none"

\* except TimeoutError: the only exception the handler of _run takes.
Catches(e) == e = "TimeoutError"

\* An exception raised inside the try block: into the handler, or out of _run.
Raise(p, e) ==
    IF Catches(e)
    THEN /\ pc' = [pc EXCEPT ![p] = "CAUGHT"]
         /\ exc' = exc
    ELSE /\ pc' = [pc EXCEPT ![p] = "RAISED"]
         /\ exc' = [exc EXCEPT ![p] = e]

\* An index slip: the else branch returns feedback[0].
ReplyResultFirst(feedback) ==
    IF feedback[1] = "terminate"
    THEN [exc |-> "none", state |-> "TERMINATE", val |-> TerminateSentinel]
    ELSE [exc |-> "none", state |-> "RESULT", val |-> feedback[1]]

\* if feedback[0] == "terminate": return " TERMINATE ALL TASKS IMMEDIATELY "
\* else: return feedback[1]
ReplyResult(feedback) ==
    IF feedback[1] = "terminate"
    THEN [exc |-> "none", state |-> "TERMINATE", val |-> TerminateSentinel]
    ELSE IF Len(feedback) < 2
    THEN [exc |-> "IndexError", state |-> "RAISED", val |-> ""]
    ELSE [exc |-> "none", state |-> "RESULT", val |-> feedback[2]]

\* A caller calls _run(text): a new invocation, nothing done yet.
Invoke(p) ==
    /\ pc[p] \in {"none"} \cup EndStates
    /\ started < MaxCalls
    /\ started' = started + 1
    /\ \E text \in ToolTexts : arg' = [arg EXCEPT ![p] = text]
    /\ pc' = [pc EXCEPT ![p] = "IDLE"]
    /\ path' = [path EXCEPT ![p] = <<"IDLE">>]
    /\ chunk' = [chunk EXCEPT ![p] = 0]
    /\ ret' = [ret EXCEPT ![p] = NoReturn]
    /\ exc' = [exc EXCEPT ![p] = "none"]
    /\ got' = [got EXCEPT ![p] = NoReply]
    /\ calls' = [calls EXCEPT ![p] = NoCalls]
    /\ timedOut' = [timedOut EXCEPT ![p] = "no"]
    /\ UNCHANGED <<session_id, socket_client, ctor, lastSent, pending, inbox, nextChunk>>
    /\ UNCHANGED <<exVars, sibVars>>

\* The send(...) call: the envelope is built (a fresh chunk id, the wall
\* clock's reading) and published, or the call raises.
Publish(p) ==
    /\ pc[p] = "IDLE"
    /\ nextChunk' = nextChunk + 1
    /\ \E now \in 0..MaxClock, out \in SendOutcomes :
          IF out = "ok"
          THEN /\ lastSent' = PublishRequest(arg[p], nextChunk, now)
               /\ pending' = pending \cup {nextChunk}
               /\ chunk' = [chunk EXCEPT ![p] = nextChunk]
               /\ calls' = [calls EXCEPT ![p].send = @ + 1, ![p].published = @ + 1]
               /\ pc' = [pc EXCEPT ![p] = "SENT"]
               /\ path' = [path EXCEPT ![p] = Append(@, "SENT")]
               /\ UNCHANGED <<exc, timedOut>>
          ELSE /\ Raise(p, out)
               /\ calls' = [calls EXCEPT ![p].send = @ + 1]
               /\ timedOut' = [timedOut EXCEPT ![p] = IF out = "TimeoutError" THEN "send" ELSE @]
               /\ UNCHANGED <<lastSent, pending, chunk, path>>
    /\ UNCHANGED <<session_id, socket_client, ctor, inbox, started, arg, ret, got>>
    /\ UNCHANGED <<exVars, sibVars>>

\* feedback = self.socket_client.receive(): the call is entered and blocks.
BeginReceive(p) ==
    /\ pc[p] = "SENT"
    /\ pc' = [pc EXCEPT ![p] = "WAITING"]
    /\ path' = [path EXCEPT ![p] = Append(@, "WAITING")]
    /\ calls' = [calls EXCEPT ![p].receive = @ + 1]
    /\ UNCHANGED <<connVars, arg, chunk, ret, exc, got, timedOut>>
    /\ UNCHANGED <<exVars, sibVars>>

\* _run goes on with the reply that receive() returned.
TakeReply(p, answerTo) ==
    \E feedback \in Replies :
        LET r == ReplyResult(feedback)
        IN  /\ pc' = [pc EXCEPT ![p] = r.state]
            /\ exc' = [exc EXCEPT ![p] = r.exc]
            /\ ret' = [ret EXCEPT ![p] = IF r.exc = "none" THEN Returned(r.val) ELSE @]
            /\ path' = [path EXCEPT ![p] = IF r.exc = "none" THEN Append(@, r.state) ELSE @]
            /\ got' = [got EXCEPT ![p] = [set |-> TRUE, data |-> feedback,
                                          answerTo |-> answerTo,
                                          beside |-> {q \in Callers \ {p} : pc[q] = "WAITING"}]]

\* A receive that pairs replies with requests: it takes the answer to the
\* caller's own request, wherever it is in the buffer, and no other.
ReceiveReplyPaired(p) ==
    /\ pc[p] = "WAITING"
    /\ \E i \in 1..Len(inbox) :
          /\ inbox[i] = chunk[p]
          /\ TakeReply(p, inbox[i])
          /\ inbox' = SubSeq(inbox, 1, i - 1) \o SubSeq(inbox, i + 1, Len(inbox))
    /\ UNCHANGED <<session_id, socket_client, ctor, lastSent, pending, nextChunk, started,
                   arg, chunk, calls, timedOut>>
    /\ UNCHANGED <<exVars, sibVars>>

\* receive() returns the oldest reply in the connection's buffer, whichever
\* request it answers.
ReceiveReply(p) ==
    /\ pc[p] = "WAITING"
    /\ inbox # <<>>
    /\ TakeReply(p, Head(inbox))
    /\ inbox' = Tail(inbox)
    /\ UNCHANGED <<session_id, socket_client, ctor, lastSent, pending, nextChunk, started,
                   arg, chunk, calls, timedOut>>
    /\ UNCHANGED <<exVars, sibVars>>

\* A handler that publishes again after a timeout.
ReceiveTimeoutRetry(p) ==
    /\ pc[p] = "WAITING"
    /\ inbox = <<>>
    /\ pc' = [pc EXCEPT ![p] = "IDLE"]
    /\ timedOut' = [timedOut EXCEPT ![p] = "receive"]
    /\ UNCHANGED <<connVars, arg, chunk, ret, exc, got, path, calls>>
    /\ UNCHANGED <<exVars, sibVars>>

\* receive() raises TimeoutError: nothing arrived in time.
ReceiveTimeout(p) ==
    /\ pc[p] = "WAITING"
    /\ inbox = <<>>
    /\ Raise(p, "TimeoutError")
    /\ timedOut' = [timedOut EXCEPT ![p] = "receive"]
    /\ UNCHANGED <<connVars, arg, chunk, ret, got, path, calls>>
    /\ UNCHANGED <<exVars, sibVars>>

\* receive() raises another exception: the connection dropped.
ReceiveError(p) ==
    /\ pc[p] = "WAITING"
    /\ Raise(p, "DisconnectedError")
    /\ UNCHANGED <<connVars, arg, chunk, ret, got, path, calls, timedOut>>
    /\ UNCHANGED <<exVars, sibVars>>

\* The except TimeoutError block: emit the error notice, return "exit".  An
\* exception raised by emit leaves _run.
NotifyTimeout(p) ==
    /\ pc[p] = "CAUGHT"
    /\ \E out \in EmitOutcomes :
          IF out = "ok"
          THEN /\ lastSent' = ErrorNotice
               /\ calls' = [calls EXCEPT ![p].emit = @ + 1, ![p].notified = @ + 1]
               /\ pc' = [pc EXCEPT ![p] = "TIMEOUT_EXIT"]
               /\ path' = [path EXCEPT ![p] = Append(@, "TIMEOUT_EXIT")]
               /\ ret' = [ret EXCEPT ![p] = Returned(ExitSentinel)]
               /\ exc' = exc
          ELSE /\ calls' = [calls EXCEPT ![p].emit = @ + 1]
               /\ pc' = [pc EXCEPT ![p] = "RAISED"]
               /\ exc' = [exc EXCEPT ![p] = out]
               /\ UNCHANGED <<lastSent, path, ret>>
    /\ UNCHANGED <<session_id, socket_client, ctor, pending, inbox, nextChunk, started,
                   arg, chunk, got, timedOut>>
    /\ UNCHANGED <<exVars, sibVars>>

\* The human answers a published request: the reply enters the connection's buffer.
HumanReply ==
    /\ \E c \in pending :
          /\ inbox' = Append(inbox, c)
          /\ pending' = pending \ {c}
    /\ UNCHANGED <<session_id, socket_client, ctor, lastSent, nextChunk, started>>
    /\ UNCHANGED runVars
    /\ UNCHANGED <<exVars, sibVars>>

(***************************************************************************)
(* The sibling tools: get_papers_from_arxiv._run and                       *)
(* openapi_request.openapi_request.  A Python result is [kind, val]: a     *)
(* list, a str, a decoded JSON body, or None.                              *)
(***************************************************************************)
Queries == {"llm agents", "tla+", ""}

TitleLists == {<<>>, <<"t1">>, <<"t1", "t2">>}

\* str(e) of the exceptions the external libraries raise.
Failures == {"timed out", "connection refused"}

\* The keyword arguments openapi_request reads, and values of "__method".
UrlKeys == {"__baseurl", "__path", "__method"}

Methods == {"get", "post", "teleport"}

\* The attributes of the requests module among Methods.
RequestsAttrs == {"get", "post"}

StatusCodes == {200, 404, 500}

Bodies == {"{}", "[]"}

SibPending == [kind |-> "pending", val |-> <<>>]

PyResultNone == [kind |-> "None", val |-> <<>>]

\* f"An error occurred: {str(e)}"
ErrorString(e) == [kind |-> "str", val |-> <<"An error occurred: ", e>>]

SibRest ==
    /\ sibPc = "call"
    /\ sibOut = SibPending
    /\ sibCaught = "none"
    /\ sibPrinted = <<>>
    /\ sibRequests = 0

SibInit ==
    /\ SibRest
    /\ \/ \E q \in Queries :
             /\ sibTool = "arxiv"
             /\ sibIn = [query |-> q, keys |-> {}, method |-> ""]
       \/ \E ks \in SUBSET UrlKeys, m \in Methods :
             /\ sibTool = "openapi"
             /\ sibIn = [query |-> "", keys |-> ks, method |-> m]

\* No sibling tool is called.
SibIdle ==
    /\ sibTool = "none"
    /\ sibIn = [query |-> "", keys |-> {}, method |-> ""]
    /\ sibPc = "off"
    /\ sibOut = SibPending
    /\ sibCaught = "none"
    /\ sibPrinted = <<>>
    /\ sibRequests = 0

\* get_papers_from_arxiv._run: except Exception as e: print(...); return the message
ArxivHandler(e) ==
    /\ sibCaught' = e
    /\ sibPrinted' = Append(sibPrinted, ErrorString(e).val)
    /\ sibOut' = ErrorString(e)
    /\ sibPc' = "done"

\* openapi_request: except Exception as e: print(...); the function ends
\* without a return statement, so the call gives None.
OpenapiHandler(e) ==
    /\ sibCaught' = e
    /\ sibPrinted' = Append(sibPrinted, ErrorString(e).val)
    /\ sibOut' = PyResultNone
    /\ sibPc' = "done"

\* import arxiv; search = arxiv.Search(query=query, max_results=10, ...)
ArxivPrepare ==
    /\ sibTool = "arxiv"
    /\ sibPc = "call"
    /\ \/ /\ sibPc' = "request"
          /\ UNCHANGED <<sibOut, sibCaught, sibPrinted>>
       \/ ArxivHandler("No module named 'arxiv'")
    /\ UNCHANGED <<sibTool, sibIn, sibRequests>>
    /\ UNCHANGED <<exVars, toolVars>>

\* for result in arxiv.Client().results(search): results.append(result.title)
\* return results
ArxivResults ==
    /\ sibTool = "arxiv"
    /\ sibPc = "request"
    /\ sibRequests' = sibRequests + 1
    /\ \/ \E titles \in TitleLists :
             /\ sibOut' = [kind |-> "list", val |-> titles]
             /\ sibPc' = "done"
             /\ UNCHANGED <<sibCaught, sibPrinted>>
       \/ \E e \in Failures : ArxivHandler(e)
    /\ UNCHANGED <<sibTool, sibIn>>
    /\ UNCHANGED <<exVars, toolVars>>

\* import requests; kwargs.get(...) twice; getattr(requests, kwargs.get("__method"));
\* kwargs.pop(...) three times.  The exception the first failing lookup raises.
LookupError(keys, method) ==
    IF "__method" \notin keys THEN "TypeError"
    ELSE IF method \notin RequestsAttrs THEN "AttributeError"
    ELSE IF "__baseurl" \notin keys THEN "KeyError"
    ELSE IF "__path" \notin keys THEN "KeyError"
    ELSE "none"

OpenapiPrepare ==
    /\ sibTool = "openapi"
    /\ sibPc = "call"
    /\ \/ LET e == LookupError(sibIn.keys, sibIn.method)
          IN  IF e = "none"
              THEN /\ sibPc' = "request"
                   /\ UNCHANGED <<sibOut, sibCaught, sibPrinted>>
              ELSE OpenapiHandler(e)
       \/ OpenapiHandler("No module named 'requests'")
    /\ UNCHANGED <<sibTool, sibIn, sibRequests>>
    /\ UNCHANGED <<exVars, toolVars>>

\* response = request_method(base_url + endpoint, params=kwargs)
OpenapiRequest ==
    /\ sibTool = "openapi"
    /\ sibPc = "request"
    /\ sibRequests' = sibRequests + 1
    /\ \/ \E code \in StatusCodes :
             /\ sibPc' = <<"response", code>>
             /\ UNCHANGED <<sibOut, sibCaught, sibPrinted>>
       \/ \E e \in Failures : OpenapiHandler(e)
    /\ UNCHANGED <<sibTool, sibIn>>
    /\ UNCHANGED <<exVars, toolVars>>

\* if response.status_code == 200: return response.json()  else: return None
OpenapiRespond ==
    /\ sibTool = "openapi"
    /\ sibPc \in {<<"response", code>> : code \in StatusCodes}
    /\ IF sibPc[2] = 200
       THEN \/ \E body \in Bodies :
                  /\ sibOut' = [kind |-> "json", val |-> <<body>>]
                  /\ sibPc' = "done"
                  /\ UNCHANGED <<sibCaught, sibPrinted>>
            \/ OpenapiHandler("JSONDecodeError")
       ELSE /\ sibOut' = PyResultNone
            /\ sibPc' = "done"
            /\ UNCHANGED <<sibCaught, sibPrinted>>
    /\ UNCHANGED <<sibTool, sibIn, sibRequests>>
    /\ UNCHANGED <<exVars, toolVars>>

Init ==
    /\ \E c \in Clients, s \in Sessions : ToolFields(c, s)
    /\ ToolRest
    /\ ExtractIdle
    /\ SibIdle

Next ==
    \/ \E p \in Callers : Invoke(p)
    \/ \E p \in Callers : Publish(p)
    \/ \E p \in Callers : BeginReceive(p)
    \/ \E p \in Callers : ReceiveReply(p)
    \/ \E p \in Callers : ReceiveTimeout(p)
    \/ \E p \in Callers : ReceiveError(p)
    \/ \E p \in Callers : NotifyTimeout(p)
    \/ HumanReply

Spec == Init /\ [][Next]_vars

(***************************************************************************)
(* extract_message on its own: one call on each input.                     *)
(***************************************************************************)
InitExtract ==
    /\ ExtractInit
    /\ ToolFields("c1", "s1")
    /\ ToolRest
    /\ SibIdle

NextExtract == ExtractCall

SpecExtract == InitExtract /\ [][NextExtract]_vars

(***************************************************************************)
(* The sibling tools on their own: one call of either.                     *)
(***************************************************************************)
InitSiblings ==
    /\ SibInit
    /\ ExtractIdle
    /\ ToolFields("c1", "s1")
    /\ ToolRest

NextSiblings ==
    \/ ArxivPrepare
    \/ ArxivResults
    \/ OpenapiPrepare
    \/ OpenapiRequest
    \/ OpenapiRespond

SpecSiblings == InitSiblings /\ [][NextSiblings]_vars

(***************************************************************************)
(* Properties of CustomHumanInput._run, checked under Spec.                *)
(***************************************************************************)

\* C1: whenever the blocking receive fails with a timeout, the invocation
\* emits exactly one error notification and then returns "exit", without
\* raising.
C1_ReceiveTimeoutNotifiesAndExits ==
    \A p \in Callers :
        (timedOut[p] = "receive" /\ pc[p] \in EndStates)
            => /\ pc[p] = "TIMEOUT_EXIT"
               /\ calls[p].notified = 1
               /\ ret[p] = Returned(ExitSentinel)
               /\ exc[p] = "none"

\* C2: for every two-element reply (kind, payload) that receive delivers, the
\* invocation returns the terminate sentinel when kind is "terminate",
\* whatever the payload, and the payload unchanged for every other kind.
C2_ReplyDecidesResult ==
    \A p \in Callers :
        (got[p].set /\ Len(got[p].data) = 2)
            => /\ exc[p] = "none"
               /\ IF got[p].data[1] = "terminate"
                  THEN pc[p] = "TERMINATE" /\ ret[p] = Returned(" TERMINATE ALL TASKS IMMEDIATELY ")
                  ELSE pc[p] = "RESULT" /\ ret[p] = Returned(got[p].data[2])

\* One caller was answered ("terminate", "exit") and got the sentinel, the
\* other was answered ("ok", "yes") and got "yes".
C2_Witness ==
    \E p, q \in Callers :
        /\ got[p].data = <<"terminate", "exit">>
        /\ ret[p] = Returned(" TERMINATE ALL TASKS IMMEDIATELY ")
        /\ got[q].data = <<"ok", "yes">>
        /\ ret[q] = Returned("yes")

\* C3: _run never lets an exception reach its caller: whatever the publish,
\* the receive and the error notification do, the invocation ends by
\* returning a string.
C3_NeverRaises ==
    \A p \in Callers :
        pc[p] \in EndStates => (pc[p] \in ReturnStates /\ ret[p].set /\ exc[p] = "none")

C8_ReceivesOldestWhoeverAsked ==
    [][ \A p \in Callers :
            (got'[p].set /\ ~got[p].set)
                => /\ pc[p] = "WAITING"
                   /\ inbox # <<>>
                   /\ got'[p].answerTo = Head(inbox)
                   /\ inbox' = Tail(inbox) ]_vars

\* Both callers were blocked in receive, and one has returned on the reply
\* written for the request of the other.
C8_Witness ==
    \E p, q \in Callers :
        /\ p # q
        /\ pc[p] \in {"RESULT", "TERMINATE"}
        /\ q \in got[p].beside
        /\ chunk[q] # 0
        /\ got[p].answerTo = chunk[q]
        /\ got[p].answerTo # chunk[p]

\* C9: every published feedback request has room equal to the session id the
\* tool was constructed with, authorName "system", isFeedback true, first
\* true, tokens 1, single true and text equal to extract_message of the
\* argument; it goes out on the "message" event in "both" mode; and the
\* tool's session id and connection stay what the constructor set.
C9_EnvelopeAsConstructed ==
    /\ session_id = ctor.session_id
    /\ socket_client = ctor.socket_client
    /\ lastSent.kind = "request"
          => /\ lastSent.client = ctor.socket_client
             /\ lastSent.event = "message"
             /\ lastSent.mode = "both"
             /\ lastSent.data.room = ctor.session_id
             /\ lastSent.data.authorName = "system"
             /\ lastSent.data.isFeedback = TRUE
             /\ lastSent.data.message.first = TRUE
             /\ lastSent.data.message.tokens = 1
             /\ lastSent.data.message.single = TRUE
             /\ lastSent.data.message.text = extract_message(lastSent.arg).val
             /\ lastSent.arg = PyStr(<<"h", "e", "l", "l", "o">>)
                   => lastSent.data.message.text = lastSent.arg
             /\ lastSent.arg # PyStr(<<"h", "e", "l", "l", "o">>)
                   => lastSent.data.message.text = PyStr(<<"h", "i">>)

\* A request built from the argument {"question": "hi"} went out with text "hi"
\* to the room of a tool constructed for session "s2".
C9_Witness ==
    /\ lastSent.kind = "request"
    /\ lastSent.arg.v[1] = "{"
    /\ lastSent.data.message.text = PyStr(<<"h", "i">>)
    /\ lastSent.data.room = "s2"

\* C10: an invocation emits the error notification at most once, and only
\* after a timeout was raised inside it; one that returns a received payload
\* or the terminate sentinel has emitted none.
C10_NoticeOnlyAfterTimeout ==
    \A p \in Callers :
        /\ calls[p].emit <= 1
        /\ calls[p].notified <= calls[p].emit
        /\ calls[p].emit = 1 => timedOut[p] # "no"
        /\ pc[p] \in {"RESULT", "TERMINATE"} => calls[p].emit = 0

\* An invocation returned "exit" because the reply's payload was "exit", and
\* emitted no notification.
C10_Witness ==
    \E p \in Callers :
        /\ pc[p] = "RESULT"
        /\ got[p].data = <<"ok", "exit">>
        /\ ret[p] = Returned("exit")
        /\ calls[p].notified = 0

(***************************************************************************)
(* Properties of extract_message, checked under SpecExtract.               *)
(***************************************************************************)

\* C5: extract_message returns its input unchanged and does not raise when
\* the input is not a string, is a string that does not start with "{",
\* starts with "{" but does not parse as JSON, or parses to a mapping with
\* more than one entry.
C5_ReturnsInputUnchanged ==
    exPc = "done"
        => /\ ( \/ exText.t # "str"
                \/ ~StartsWithBrace(exText)
                \/ ~json_loads(exText.v).ok
                \/ Len(json_loads(exText.v).val.v) > 1 )
                 => (exOut.val = exText /\ ~exOut.raised)
           /\ (exOrigin.known /\ Len(AsDict(exOrigin.entries, <<>>)) > 1)
                 => (exOut.val = exText /\ ~exOut.raised)

\* The malformed text {not json came back unchanged, and the exception was logged.
C5_Witness ==
    /\ exPc = "done"
    /\ exText = PyStr(<<"{", "n", "o", "t", WS, "j", "s", "o", "n">>)
    /\ exOut.val = exText
    /\ exOut.logged
    /\ ~exOut.raised

C7_SiblingsReturnErrorString ==
    /\ sibRequests <= 1
    /\ (sibPc = "done" /\ sibRequests = 1 /\ sibCaught # "none") => sibOut.kind = "str"

====

